---- MODULE Spec2Model ----
(***************************************************************************)
(* Model of the record deduplication logic of scripts/deduplicate_papers.py *)
(* (normalize_string, normalize_authors, title_similarity, are_duplicates,  *)
(* deduplicate_papers).                                                     *)
(*                                                                         *)
(* Encoding of Python values:                                               *)
(*   str        a sequence of one-character strings, "" is << >>            *)
(*   dict       a function whose DOMAIN is the set of keys that are present *)
(*   list       a sequence                                                  *)
(*   float      a ratio [num, den] of naturals (den > 0), compared by       *)
(*              cross-multiplication                                        *)
(*   author     [kind |-> "dict", name |-> s], [kind |-> "dict"] (a dict    *)
(*              without a name key) or [kind |-> "str", name |-> s]         *)
(***************************************************************************)
EXTENDS Integers, Sequences, FiniteSets, TLC

VARIABLES
    \* deduplicate_papers
    all_papers, i, paper, unique_papers, duplicate_count, is_duplicate, j, pc,
    \* one call of are_duplicates
    paper1, paper2, similarity_threshold, result, raised, cpc,
    \* one call of title_similarity in each argument order
    title1, title2, sim12, sim21, spc,
    \* normalize_string applied once and twice
    norm_in, norm_once, norm_twice, npc,
    \* load_reference_map: the loop over ref_entries
    ref_entries, csv_papers, included_papers, pdf_map, ref_pos, title_match, search_title,
    target_pdf, best_score, ref_link_map, rpc,
    \* the body of that loop run on two enumerations of the same pdf_map
    run_text, run_included, run_pdf_map_a, run_pdf_map_b, run_target_a, run_target_b, run_pc

vars == <<all_papers, i, paper, unique_papers, duplicate_count, is_duplicate, j, pc,
          paper1, paper2, similarity_threshold, result, raised, cpc,
          title1, title2, sim12, sim21, spc,
          norm_in, norm_once, norm_twice, npc,
          ref_entries, csv_papers, included_papers, pdf_map, ref_pos, title_match,
          search_title, target_pdf, best_score, ref_link_map, rpc,
          run_text, run_included, run_pdf_map_a, run_pdf_map_b, run_target_a, run_target_b,
          run_pc>>

dedupVars == <<all_papers, i, paper, unique_papers, duplicate_count, is_duplicate, j, pc>>
classifyVars == <<paper1, paper2, similarity_threshold, result, raised, cpc>>
simVars == <<title1, title2, sim12, sim21, spc>>
normVars == <<norm_in, norm_once, norm_twice, npc>>
resolveVars == <<ref_entries, csv_papers, included_papers, pdf_map, ref_pos, title_match,
                 search_title, target_pdf, best_score, ref_link_map, rpc>>
runVars == <<run_text, run_included, run_pdf_map_a, run_pdf_map_b, run_target_a,
             run_target_b, run_pc>>
websiteVars == <<normVars, resolveVars, runVars>>

-----------------------------------------------------------------------------
(* Characters *)

\* The characters of the model.
Whitespace == <<"\t", " ">>
Punctuation == <<"!", "-", ".", "/", ":", "|">>
Digits == <<"0", "1", "2", "3", "4", "5", "6", "7", "8", "9">>
UpperCase ==
    <<
      "A", "B", "C", "D", "E", "F", "G", "H", "I", "J", "K", "L", "M",
      "N", "O", "P", "Q", "R", "S", "T", "U", "V", "W", "X", "Y", "Z" >>
LowerCase ==
    <<
      "a", "b", "c", "d", "e", "f", "g", "h", "i", "j", "k", "l", "m",
      "n", "o", "p", "q", "r", "s", "t", "u", "v", "w", "x", "y", "z" >>

\* The same characters in code point order, as sorted() compares them.
CodePoints ==
    <<"\t", " ", "!", "-", ".", "/">> \o Digits \o <<":">> \o UpperCase
        \o <<"_">> \o LowerCase \o <<"|">>

Range(f) == {f[n] : n \in DOMAIN f}

Ord(c) == CHOOSE n \in 1..Len(CodePoints) : CodePoints[n] = c

UpperLetters == Range(UpperCase)

\* str.lower() on one character
Lower(c) ==
    IF c \in UpperLetters
    THEN LowerCase[CHOOSE n \in 1..Len(UpperCase) : UpperCase[n] = c]
    ELSE c

\* the regular expression class \s
IsSpace(c) == c \in Range(Whitespace)

\* the regular expression class \w: letters, digits and the underscore
WordCharacters == Range(UpperCase) \cup Range(LowerCase) \cup Range(Digits) \cup {"_"}

IsWord(c) == c \in WordCharacters

-----------------------------------------------------------------------------
(* normalize_string *)

\* s.lower()
LowerStr(s) == [n \in 1..Len(s) |-> Lower(s[n])]

\* re.sub(r'[^\w\s]', ' ', s)
SubSpecial(s) ==
    [n \in 1..Len(s) |-> IF IsWord(s[n]) \/ IsSpace(s[n]) THEN s[n] ELSE " "]

\* a character of s with its position
CharAt(s) == [n \in 1..Len(s) |-> [char |-> s[n], pos |-> n]]

\* re.sub(r'\s+', ' ', s): every maximal run of whitespace becomes one space
\* (the last character of the run stays, as a space, and the others go)
CollapseSpaces(s) ==
    LET EndsRun(c) == ~(IsSpace(c.char) /\ c.pos < Len(s) /\ IsSpace(s[c.pos + 1]))
        kept == SelectSeq(CharAt(s), EndsRun)
    IN  [n \in 1..Len(kept) |-> IF IsSpace(kept[n].char) THEN " " ELSE kept[n].char]

RECURSIVE LStrip(_)
LStrip(s) ==
    IF s # << >> /\ IsSpace(s[1]) THEN LStrip(Tail(s)) ELSE s

RECURSIVE RStrip(_)
RStrip(s) ==
    IF s # << >> /\ IsSpace(s[Len(s)]) THEN RStrip(SubSeq(s, 1, Len(s) - 1)) ELSE s

\* str.strip()
Strip(s) == RStrip(LStrip(s))

\* normalize_string stripping before the substitutions instead of after them
normalize_string_StripFirst(s) ==
    IF s = << >> THEN << >>
    ELSE CollapseSpaces(SubSpecial(Strip(LowerStr(s))))

normalize_string(s) ==
    IF s = << >> THEN << >>
    ELSE Strip(CollapseSpaces(SubSpecial(LowerStr(s))))

-----------------------------------------------------------------------------
(* difflib.SequenceMatcher(None, a, b).ratio(), as title_similarity uses it. *)
(* Positions are 0-based and ranges half-open, as in difflib.               *)

Max(S) == CHOOSE x \in S : \A y \in S : y <= x
Min(S) == CHOOSE x \in S : \A y \in S : x <= y

\* length of the common run a[ia:ia+k] == b[jb:jb+k] inside a[:ahi], b[:bhi]
RunLen(a, b, ia, jb, ahi, bhi) ==
    LET room == IF ia < ahi /\ jb < bhi THEN Min({ahi - ia, bhi - jb}) ELSE 0
    IN  CHOOSE k \in 0..room :
            /\ k = room \/ a[ia + k + 1] # b[jb + k + 1]
            /\ \A n \in 1..k : a[ia + n] = b[jb + n]

\* the length of b from which SequenceMatcher's automatic junk heuristic
\* applies (autojunk is left on: SequenceMatcher(None, t1, t2))
AutoJunkLen == 200

\* SequenceMatcher.__chain_b: the popular elements of b, which are removed
\* from b2j: with len(b) >= 200, those occurring more than len(b) // 100 + 1
\* times
bpopular(b) ==
    IF Len(b) >= AutoJunkLen
    THEN {elt \in Range(b) :
             Cardinality({n \in 1..Len(b) : b[n] = elt}) > (Len(b) \div 100) + 1}
    ELSE {}

\* length of the common run a[ia:ia+k] == b[jb:jb+k] inside a[:ahi], b[:bhi]
\* whose elements are keys of b2j (none of them popular)
B2jRunLen(a, b, ia, jb, ahi, bhi, popular) ==
    LET room == IF ia < ahi /\ jb < bhi THEN Min({ahi - ia, bhi - jb}) ELSE 0
    IN  CHOOSE k \in 0..room :
            /\ \/ k = room
               \/ a[ia + k + 1] # b[jb + k + 1]
               \/ b[jb + k + 1] \in popular
            /\ \A n \in 1..k : a[ia + n] = b[jb + n] /\ b[jb + n] \notin popular

\* length of the common run that ends just before a[ia], b[jb] inside
\* a[alo:], b[blo:]
RunLenBefore(a, b, ia, jb, alo, blo) ==
    LET room == IF ia > alo /\ jb > blo THEN Min({ia - alo, jb - blo}) ELSE 0
    IN  CHOOSE k \in 0..room :
            /\ k = room \/ a[ia - k] # b[jb - k]
            /\ \A n \in 1..k : a[ia - n + 1] = b[jb - n + 1]

\* SequenceMatcher.find_longest_match(alo, ahi, blo, bhi).  First the longest
\* block of elements that are keys of b2j, among the longest the one starting
\* earliest in a, and among those the one starting earliest in b (the empty
\* block at alo, blo if there is none); then that block extended by equal
\* elements, popular or not, to its left and to its right.  No element is
\* junk (isjunk is None), so a popular element cannot start a block but can
\* extend one.
find_longest_match(a, b, alo, ahi, blo, bhi) ==
    LET popular == bpopular(b)
        starts == {jb \in blo..(bhi - 1) : b[jb + 1] \notin popular}
        len(ia, jb) == B2jRunLen(a, b, ia, jb, ahi, bhi, popular)
        bestsize == Max({0} \cup {len(ia, jb) : ia \in alo..(ahi - 1), jb \in starts})
        besti == IF bestsize = 0 THEN alo
                 ELSE Min({ia \in alo..(ahi - 1) :
                              \E jb \in starts : len(ia, jb) = bestsize})
        bestj == IF bestsize = 0 THEN blo
                 ELSE Min({jb \in starts : len(besti, jb) = bestsize})
        before == RunLenBefore(a, b, besti, bestj, alo, blo)
        after == RunLen(a, b, besti + bestsize, bestj + bestsize, ahi, bhi)
    IN  [i |-> besti - before, j |-> bestj - before, k |-> before + bestsize + after]

\* SequenceMatcher.get_matching_blocks, summed: the longest block, then the
\* pieces to its left and to its right.
RECURSIVE MatchCount(_, _, _, _, _, _)
MatchCount(a, b, alo, ahi, blo, bhi) ==
    LET m == find_longest_match(a, b, alo, ahi, blo, bhi)
    IN  IF m.k = 0 THEN 0
        ELSE m.k
             + (IF alo < m.i /\ blo < m.j
                THEN MatchCount(a, b, alo, m.i, blo, m.j) ELSE 0)
             + (IF m.i + m.k < ahi /\ m.j + m.k < bhi
                THEN MatchCount(a, b, m.i + m.k, ahi, m.j + m.k, bhi) ELSE 0)

\* SequenceMatcher.ratio(): 2.0 * matches / (len(a) + len(b)), 1.0 if both empty
Ratio(a, b) ==
    IF Len(a) + Len(b) = 0 THEN [num |-> 1, den |-> 1]
    ELSE [num |-> 2 * MatchCount(a, b, 0, Len(a), 0, Len(b)), den |-> Len(a) + Len(b)]

\* comparisons of two ratios
RatioGE(x, y) == x.num * y.den >= y.num * x.den
RatioEq(x, y) == x.num * y.den = y.num * x.den

Zero == [num |-> 0, den |-> 1]

\* title_similarity without the test for an empty normalized title
title_similarity_NoEmptyTest(t1raw, t2raw) ==
    Ratio(normalize_string(t1raw), normalize_string(t2raw))

title_similarity(t1raw, t2raw) ==
    LET t1 == normalize_string(t1raw)
        t2 == normalize_string(t2raw)
    IN  IF t1 = << >> \/ t2 = << >> THEN Zero ELSE Ratio(t1, t2)

-----------------------------------------------------------------------------
(* normalize_authors *)

\* dict.get(key, default)
Get(d, key, default) == IF key \in DOMAIN d THEN d[key] ELSE default

\* the name of one author entry: author.get('name', '') of a dict, str(author)
\* of anything else
AuthorName(author) ==
    IF author.kind = "dict" THEN Get(author, "name", << >>) ELSE author.name

\* the loop of normalize_authors: the normalized names of the entries whose
\* name is not empty, in list order
RECURSIVE AuthorNames(_)
AuthorNames(authors) ==
    IF authors = << >> THEN << >>
    ELSE LET name == AuthorName(authors[1])
         IN  (IF name # << >> THEN <<normalize_string(name)>> ELSE << >>)
             \o AuthorNames(Tail(authors))

\* s < t as Python compares two strings
RECURSIVE StrLess(_, _)
StrLess(s, t) ==
    IF t = << >> THEN FALSE
    ELSE IF s = << >> THEN TRUE
    ELSE IF s[1] = t[1] THEN StrLess(Tail(s), Tail(t))
    ELSE Ord(s[1]) < Ord(t[1])

\* insert x into the sorted list xs, after the elements not greater than it
RECURSIVE Insert(_, _)
Insert(x, xs) ==
    IF xs = << >> THEN <<x>>
    ELSE IF StrLess(x, xs[1]) THEN <<x>> \o xs
    ELSE <<xs[1]>> \o Insert(x, Tail(xs))

\* sorted(xs)
RECURSIVE Sorted(_)
Sorted(xs) ==
    IF xs = << >> THEN << >> ELSE Insert(xs[Len(xs)], Sorted(SubSeq(xs, 1, Len(xs) - 1)))

\* '|'.join(xs)
RECURSIVE Join(_)
Join(xs) ==
    IF xs = << >> THEN << >>
    ELSE IF Len(xs) = 1 THEN xs[1]
    ELSE xs[1] \o <<"|">> \o Join(Tail(xs))

\* s.split('|'): the pieces between the separators, never an empty list
RECURSIVE Split(_)
Split(s) ==
    IF \A n \in 1..Len(s) : s[n] # "|" THEN <<s>>
    ELSE LET cut == Min({n \in 1..Len(s) : s[n] = "|"})
         IN  <<SubSeq(s, 1, cut - 1)>> \o Split(SubSeq(s, cut + 1, Len(s)))

normalize_authors(authors) ==
    IF authors = << >> THEN << >>
    ELSE Join(Sorted(AuthorNames(authors)))

-----------------------------------------------------------------------------
(* are_duplicates *)

\* a default similarity_threshold of 0.0
DefaultThreshold_Zero == [num |-> 0, den |-> 1]

\* the default of similarity_threshold, 0.85
DefaultThreshold == [num |-> 85, den |-> 100]
\* the author overlap ratio that makes a duplicate, 0.5
OverlapRatio == [num |-> 1, den |-> 2]
\* the title similarity that makes a duplicate without authors, 0.95
FallbackThreshold == [num |-> 95, den |-> 100]

\* DoiKey without the lowercasing
DoiKey_NoLower(p) ==
    IF Get(p, "doi", << >>) # << >> THEN Strip(Get(p, "doi", << >>)) ELSE << >>

\* paper.get('doi', '').strip().lower() if paper.get('doi') else ''
DoiKey(p) ==
    IF Get(p, "doi", << >>) # << >> THEN LowerStr(Strip(Get(p, "doi", << >>))) ELSE << >>

\* DoiMatch without the test that both identifiers are non-empty
DoiMatch_NoEmptyTest(p1, p2) == DoiKey(p1) = DoiKey(p2)

\* doi1 and doi2 and doi1 == doi2
DoiMatch(p1, p2) ==
    DoiKey(p1) # << >> /\ DoiKey(p2) # << >> /\ DoiKey(p1) = DoiKey(p2)

\* TitleMissing looking at the first title only
TitleMissing_FirstOnly(p1, p2) == Get(p1, "title", << >>) = << >>

\* not title1 or not title2
TitleMissing(p1, p2) ==
    Get(p1, "title", << >>) = << >> \/ Get(p2, "title", << >>) = << >>

\* min_authors when the empty key is discarded from both sets
MinAuthors_DiscardEmpty(authors1, authors2) ==
    Min({Cardinality(Range(Split(authors1)) \ {<< >>}),
         Cardinality(Range(Split(authors2)) \ {<< >>})})

\* min(len(auth1_set), len(auth2_set))
MinAuthors(authors1, authors2) ==
    Min({Cardinality(Range(Split(authors1))), Cardinality(Range(Split(authors2)))})

\* the branch taken when both author strings are non-empty: the overlap of the
\* two sets over the size of the smaller one is at least 0.5
AuthorOverlap(authors1, authors2) ==
    LET auth1_set == Range(Split(authors1))
        auth2_set == Range(Split(authors2))
    IN  IF auth1_set # {} /\ auth2_set # {}
        THEN LET overlap == Cardinality(auth1_set \cap auth2_set)
                 min_authors == MinAuthors(authors1, authors2)
             IN  RatioGE([num |-> overlap, den |-> min_authors], OverlapRatio)
        ELSE FALSE

\* the branch taken when an author string is empty: sim >= 0.95
TitleFallback(sim) == RatioGE(sim, FallbackThreshold)

\* SimilarEnough with a fixed bar of 0.5 in place of the threshold
SimilarEnough_Fixed(sim, threshold) == RatioGE(sim, [num |-> 1, den |-> 2])

\* sim >= similarity_threshold
SimilarEnough(sim, threshold) == RatioGE(sim, threshold)

are_duplicates(p1, p2, threshold) ==
    IF DoiMatch(p1, p2) THEN TRUE
    ELSE IF TitleMissing(p1, p2) THEN FALSE
    ELSE LET sim == title_similarity(Get(p1, "title", << >>), Get(p2, "title", << >>))
         IN  IF SimilarEnough(sim, threshold)
             THEN LET authors1 == normalize_authors(Get(p1, "authors", << >>))
                      authors2 == normalize_authors(Get(p2, "authors", << >>))
                  IN  IF authors1 # << >> /\ authors2 # << >>
                      THEN AuthorOverlap(authors1, authors2)
                      ELSE TitleFallback(sim)
             ELSE FALSE

\* the call ends in the ZeroDivisionError of overlap / min_authors (line 84)
ZeroDivision(p1, p2, threshold) ==
    /\ ~DoiMatch(p1, p2)
    /\ ~TitleMissing(p1, p2)
    /\ SimilarEnough(title_similarity(Get(p1, "title", << >>), Get(p2, "title", << >>)),
                     threshold)
    /\ normalize_authors(Get(p1, "authors", << >>)) # << >>
    /\ normalize_authors(Get(p2, "authors", << >>)) # << >>
    /\ MinAuthors(normalize_authors(Get(p1, "authors", << >>)),
                  normalize_authors(Get(p2, "authors", << >>))) = 0

-----------------------------------------------------------------------------
(* Inputs *)

\* the longest input of deduplicate_papers
MaxPapers == 3
\* the longest string given to title_similarity
MaxTitleLen == 3

\* all sequences over S of length at most n
RECURSIVE SeqsUpTo(_, _)
SeqsUpTo(S, n) ==
    IF n = 0 THEN {<< >>}
    ELSE LET shorter == SeqsUpTo(S, n - 1)
         IN  shorter \cup {Append(q, x) : q \in {r \in shorter : Len(r) = n - 1}, x \in S}

\* a key that is absent, or present with one of the values
Absent == << >>
Present(values) == {<<v>> : v \in values}

\* the dict with the keys that are present
Paper(doi, title, authors) ==
    [key \in (IF doi # Absent THEN {"doi"} ELSE {})
         \cup (IF title # Absent THEN {"title"} ELSE {})
         \cup (IF authors # Absent THEN {"authors"} ELSE {})
     |-> CASE key = "doi" -> doi[1]
           [] key = "title" -> title[1]
           [] key = "authors" -> authors[1]]

Str(name) == [kind |-> "str", name |-> name]
Dict(name) == [kind |-> "dict", name |-> name]
DictNoName == [kind |-> "dict"]

DoiX == <<"1", "/", "x">>
DoiXSpaced == <<" ", "1", "/", "X">>
DoiY == <<"1", "/", "y">>
Dois == {<< >>, <<" ">>, DoiX, DoiXSpaced, DoiY}

TitleLong == <<"a", "b", "c", "d", "e", "f", "g", "h", "i", "j">>
\* normalizes to TitleLong
TitleLongRaw == <<"A", "B", "C", "D", "E", "F", "G", "H", "I", "J", "!">>
\* similarity 20/21 with TitleLong
TitleLonger == <<"a", "b", "c", "d", "e", "f", "g", "h", "i", "j", "k">>
\* similarity 18/20 with TitleLong
TitleNear == <<"a", "b", "c", "d", "e", "f", "g", "h", "i", "x">>
\* similarity 10/15 with TitleLong
TitleShort == <<"a", "b", "c", "d", "e">>
\* not empty, but empty once normalized
TitlePunct == <<"-">>
Titles == {<< >>, TitlePunct, TitleLong, TitleLongRaw, TitleLonger, TitleNear, TitleShort}
\* similarity 12/14 of the first with the second, 8/14 of the second with the first
TitleAaaaaba == <<"a", "a", "a", "a", "a", "b", "a">>
TitleAabaaab == <<"a", "a", "b", "a", "a", "a", "b">>

AuthorLists ==
    { << >>,
      <<Str(<<"a">>)>>,
      <<Dict(<<"A", ".">>), Str(<<"b">>)>>,
      <<Str(<<"b">>), Str(<<"c">>), Str(<<"d">>)>>,
      <<Str(<<"d">>), Str(<<"e">>), Dict(<<"f">>)>>,
      <<DictNoName>>,
      <<Str(<<"-">>)>>,
      <<Str(<<"-">>), Str(<<"!">>)>>,
      <<Str(<<"-">>), Str(<<"a">>)>>,
      <<Dict(<<".">>), Str(<<"b">>)>> }

\* the records given to are_duplicates: every identifier with a few titles and
\* authors, and every title and author list with and without an identifier
Papers ==
    {Paper(d, t, a) : d \in {Absent} \cup Present(Dois),
                      t \in {Absent} \cup Present({<< >>, TitleLong, TitleShort}),
                      a \in {Absent} \cup Present({<<Str(<<"a">>)>>})}
    \cup
    {Paper(d, t, a) : d \in {Absent} \cup Present({DoiX}),
                      t \in {Absent} \cup Present(Titles),
                      a \in {Absent} \cup Present(AuthorLists)}
    \cup
    {Paper(Absent, <<t>>, <<<<Str(<<"a">>)>>>>) : t \in {TitleAaaaaba, TitleAabaaab}}

\* the thresholds given to are_duplicates: the default and 0.0
Thresholds == {DefaultThreshold, Zero}

\* the records given to deduplicate_papers
DedupPapers ==
    { Paper(<<DoiX>>, <<TitleLong>>, Absent),
      Paper(<<DoiXSpaced>>, <<TitleShort>>, <<<<Str(<<"a">>)>>>>),
      Paper(Absent, <<TitleLongRaw>>, <<<<Str(<<"a">>)>>>>),
      Paper(Absent, <<TitleLong>>, <<<<Str(<<"b">>), Str(<<"c">>), Str(<<"d">>)>>>>),
      Paper(Absent, <<TitleNear>>, Absent),
      Paper(Absent, Absent, <<<<Str(<<"a">>)>>>>),
      Paper(<<<< >>>>, <<<< >>>>, Absent),
      Paper(Absent, Absent, Absent) }

\* the longest string given to normalize_string
MaxNormLen == 3
\* the characters of the strings given to normalize_string
NormChars == {"a", "B", "_", "-", " ", "\t"}

\* the characters of the strings given to title_similarity
TitleChars == {"a", "b", "C", "-"}

\* titles of 200 characters and more, for which SequenceMatcher's automatic
\* junk heuristic applies: 'abcdefghij' * 20, in which every character is
\* popular
TitleTwoHundred == [n \in 1..AutoJunkLen |-> TitleLong[((n - 1) % Len(TitleLong)) + 1]]
\* normalizes to TitleTwoHundred
TitleTwoHundredRaw == <<"A">> \o Tail(TitleTwoHundred) \o <<"!">>
\* TitleTwoHundred after, and before, a character that is not popular
XTitleTwoHundred == <<"x">> \o TitleTwoHundred
TitleTwoHundredX == TitleTwoHundred \o <<"x">>
\* 'a' * 200
TitleTwoHundredAs == [n \in 1..AutoJunkLen |-> "a"]
LongTitles ==
    {TitleTwoHundred, TitleTwoHundredRaw, XTitleTwoHundred, TitleTwoHundredX,
     TitleTwoHundredAs}

NoPaper == << >>
NoResult == "none"
\* the exception a call ended in, or none
NoException == "none"
ZeroDivisionError == "ZeroDivisionError"

-----------------------------------------------------------------------------
(* One call of title_similarity(title1, title2) and one of                  *)
(* title_similarity(title2, title1).                                        *)

DedupIdle ==
    /\ all_papers = << >> /\ i = 0 /\ paper = NoPaper /\ unique_papers = << >>
    /\ duplicate_count = 0 /\ is_duplicate = FALSE /\ j = 0 /\ pc = "off"

ClassifyIdle ==
    /\ paper1 = NoPaper /\ paper2 = NoPaper /\ similarity_threshold = Zero
    /\ result = NoResult /\ raised = NoException /\ cpc = "off"

SimIdle ==
    /\ title1 = << >> /\ title2 = << >> /\ sim12 = Zero /\ sim21 = Zero /\ spc = "off"

NormIdle ==
    /\ norm_in = << >> /\ norm_once = << >> /\ norm_twice = << >> /\ npc = "off"

ResolveIdle ==
    /\ ref_entries = << >> /\ csv_papers = << >> /\ included_papers = << >>
    /\ pdf_map = << >> /\ ref_pos = 0 /\ title_match = FALSE
    /\ search_title = << >> /\ target_pdf = << >> /\ best_score = 0
    /\ ref_link_map = << >> /\ rpc = "off"

RunIdle ==
    /\ run_text = << >> /\ run_included = << >> /\ run_pdf_map_a = << >>
    /\ run_pdf_map_b = << >> /\ run_target_a = << >> /\ run_target_b = << >>
    /\ run_pc = "off"

WebsiteIdle == NormIdle /\ ResolveIdle /\ RunIdle

InitSim ==
    /\ title1 \in SeqsUpTo(TitleChars, MaxTitleLen)
    /\ title2 \in SeqsUpTo(TitleChars, MaxTitleLen)
    /\ sim12 = Zero /\ sim21 = Zero /\ spc = "call"
    /\ DedupIdle /\ ClassifyIdle /\ WebsiteIdle

CallTitleSimilarity ==
    /\ spc = "call"
    /\ sim12' = title_similarity(title1, title2)
    /\ sim21' = title_similarity(title2, title1)
    /\ spc' = "returned"
    /\ UNCHANGED <<title1, title2>>
    /\ UNCHANGED dedupVars /\ UNCHANGED classifyVars /\ UNCHANGED websiteVars

NextSim == CallTitleSimilarity

SpecSim == InitSim /\ [][NextSim]_vars

\* the same call on short titles and on titles of 200 characters and more
InitSimLong ==
    /\ title1 \in SeqsUpTo(TitleChars, MaxTitleLen) \cup LongTitles
    /\ title2 \in SeqsUpTo(TitleChars, MaxTitleLen) \cup LongTitles
    /\ sim12 = Zero /\ sim21 = Zero /\ spc = "call"
    /\ DedupIdle /\ ClassifyIdle /\ WebsiteIdle

SpecSimLong == InitSimLong /\ [][NextSim]_vars

-----------------------------------------------------------------------------
(* normalize_string(norm_in), and normalize_string of its result *)

InitNorm ==
    /\ norm_in \in SeqsUpTo(NormChars, MaxNormLen)
    /\ norm_once = << >> /\ norm_twice = << >> /\ npc = "call"
    /\ DedupIdle /\ ClassifyIdle /\ SimIdle /\ ResolveIdle /\ RunIdle

CallNormalize ==
    /\ npc = "call"
    /\ norm_once' = normalize_string(norm_in)
    /\ norm_twice' = normalize_string(normalize_string(norm_in))
    /\ npc' = "returned"
    /\ UNCHANGED norm_in
    /\ UNCHANGED <<dedupVars, classifyVars, simVars, resolveVars, runVars>>

NextNorm == CallNormalize

SpecNorm == InitNorm /\ [][NextNorm]_vars

-----------------------------------------------------------------------------
(* One call of are_duplicates(paper1, paper2, similarity_threshold).        *)

InitClassify ==
    /\ paper1 \in Papers /\ paper2 \in Papers
    /\ similarity_threshold \in Thresholds
    /\ result = NoResult /\ raised = NoException /\ cpc = "call"
    /\ DedupIdle /\ SimIdle /\ WebsiteIdle

CallAreDuplicates ==
    /\ cpc = "call"
    /\ IF ZeroDivision(paper1, paper2, similarity_threshold)
       THEN result' = NoResult /\ raised' = ZeroDivisionError /\ cpc' = "raised"
       ELSE /\ result' = are_duplicates(paper1, paper2, similarity_threshold)
            /\ raised' = NoException
            /\ cpc' = "returned"
    /\ UNCHANGED <<paper1, paper2, similarity_threshold>>
    /\ UNCHANGED dedupVars /\ UNCHANGED simVars /\ UNCHANGED websiteVars

NextClassify == CallAreDuplicates

SpecClassify == InitClassify /\ [][NextClassify]_vars

-----------------------------------------------------------------------------
(* deduplicate_papers(all_papers).  pc is the place in the function: "for"  *)
(* the head of the loop over all_papers, "scan" the loop over               *)
(* unique_papers, "endscan" the statement after it, "done" the return.      *)
(* i counts the records taken from all_papers, j the records of             *)
(* unique_papers compared with the current one.                             *)

Init ==
    /\ all_papers \in SeqsUpTo(DedupPapers, MaxPapers)
    /\ i = 0 /\ paper = NoPaper
    /\ unique_papers = << >> /\ duplicate_count = 0
    /\ is_duplicate = FALSE /\ j = 0
    /\ pc = "for"
    /\ ClassifyIdle /\ SimIdle /\ WebsiteIdle

\* ForNext normalizing the title of the record in place, in all_papers
ForNext_NormalizeInPlace ==
    /\ pc = "for" /\ i < Len(all_papers)
    /\ all_papers' = [all_papers EXCEPT ![i + 1] =
                         IF "title" \in DOMAIN @
                         THEN [@ EXCEPT !["title"] = normalize_string(@)]
                         ELSE @]
    /\ paper' = all_papers'[i + 1]
    /\ is_duplicate' = FALSE
    /\ j' = 0
    /\ pc' = "scan"
    /\ UNCHANGED <<i, unique_papers, duplicate_count>>
    /\ UNCHANGED classifyVars /\ UNCHANGED simVars /\ UNCHANGED websiteVars

\* for i, paper in enumerate(all_papers): is_duplicate = False
ForNext ==
    /\ pc = "for" /\ i < Len(all_papers)
    /\ paper' = all_papers[i + 1]
    /\ is_duplicate' = FALSE
    /\ j' = 0
    /\ pc' = "scan"
    /\ UNCHANGED <<all_papers, i, unique_papers, duplicate_count>>
    /\ UNCHANGED classifyVars /\ UNCHANGED simVars /\ UNCHANGED websiteVars

\* ScanMatch without the increment of duplicate_count
ScanMatch_NoCount ==
    /\ pc = "scan" /\ j < Len(unique_papers)
    /\ are_duplicates(paper, unique_papers[j + 1], DefaultThreshold)
    /\ is_duplicate' = TRUE
    /\ pc' = "endscan"
    /\ UNCHANGED <<all_papers, i, paper, unique_papers, duplicate_count, j>>
    /\ UNCHANGED classifyVars /\ UNCHANGED simVars /\ UNCHANGED websiteVars

\* ScanMatch without the break: the scan goes on after a match
ScanMatch_NoBreak ==
    /\ pc = "scan" /\ j < Len(unique_papers)
    /\ are_duplicates(paper, unique_papers[j + 1], DefaultThreshold)
    /\ is_duplicate' = TRUE
    /\ duplicate_count' = duplicate_count + 1
    /\ j' = j + 1
    /\ UNCHANGED <<all_papers, i, paper, unique_papers, pc>>
    /\ UNCHANGED classifyVars /\ UNCHANGED simVars /\ UNCHANGED websiteVars

\* the next unique_paper is a duplicate: count it and break
ScanMatch ==
    /\ pc = "scan" /\ j < Len(unique_papers)
    /\ are_duplicates(paper, unique_papers[j + 1], DefaultThreshold)
    /\ is_duplicate' = TRUE
    /\ duplicate_count' = duplicate_count + 1
    /\ pc' = "endscan"
    /\ UNCHANGED <<all_papers, i, paper, unique_papers, j>>
    /\ UNCHANGED classifyVars /\ UNCHANGED simVars /\ UNCHANGED websiteVars

\* ScanNoMatch giving up the scan after the first unique_paper that is no duplicate
ScanNoMatch_FirstOnly ==
    /\ pc = "scan" /\ j < Len(unique_papers)
    /\ ~are_duplicates(paper, unique_papers[j + 1], DefaultThreshold)
    /\ j' = Len(unique_papers)
    /\ UNCHANGED <<all_papers, i, paper, unique_papers, duplicate_count, is_duplicate, pc>>
    /\ UNCHANGED classifyVars /\ UNCHANGED simVars /\ UNCHANGED websiteVars

\* the next unique_paper is no duplicate: go on with the one after it
ScanNoMatch ==
    /\ pc = "scan" /\ j < Len(unique_papers)
    /\ ~are_duplicates(paper, unique_papers[j + 1], DefaultThreshold)
    /\ j' = j + 1
    /\ UNCHANGED <<all_papers, i, paper, unique_papers, duplicate_count, is_duplicate, pc>>
    /\ UNCHANGED classifyVars /\ UNCHANGED simVars /\ UNCHANGED websiteVars

\* unique_papers is exhausted
ScanEnd ==
    /\ pc = "scan" /\ j = Len(unique_papers)
    /\ pc' = "endscan"
    /\ UNCHANGED <<all_papers, i, paper, unique_papers, duplicate_count, is_duplicate, j>>
    /\ UNCHANGED classifyVars /\ UNCHANGED simVars /\ UNCHANGED websiteVars

\* AppendUnique inserting at the front instead of appending
AppendUnique_Front ==
    /\ pc = "endscan" /\ ~is_duplicate
    /\ unique_papers' = <<paper>> \o unique_papers
    /\ i' = i + 1
    /\ pc' = "for"
    /\ UNCHANGED <<all_papers, paper, duplicate_count, is_duplicate, j>>
    /\ UNCHANGED classifyVars /\ UNCHANGED simVars /\ UNCHANGED websiteVars

\* if not is_duplicate: unique_papers.append(paper)
AppendUnique ==
    /\ pc = "endscan" /\ ~is_duplicate
    /\ unique_papers' = Append(unique_papers, paper)
    /\ i' = i + 1
    /\ pc' = "for"
    /\ UNCHANGED <<all_papers, paper, duplicate_count, is_duplicate, j>>
    /\ UNCHANGED classifyVars /\ UNCHANGED simVars /\ UNCHANGED websiteVars

\* SkipDuplicate appending the record although it is a duplicate
SkipDuplicate_Append ==
    /\ pc = "endscan" /\ is_duplicate
    /\ unique_papers' = Append(unique_papers, paper)
    /\ i' = i + 1
    /\ pc' = "for"
    /\ UNCHANGED <<all_papers, paper, duplicate_count, is_duplicate, j>>
    /\ UNCHANGED classifyVars /\ UNCHANGED simVars /\ UNCHANGED websiteVars

\* is_duplicate: nothing is appended
SkipDuplicate ==
    /\ pc = "endscan" /\ is_duplicate
    /\ i' = i + 1
    /\ pc' = "for"
    /\ UNCHANGED <<all_papers, paper, unique_papers, duplicate_count, is_duplicate, j>>
    /\ UNCHANGED classifyVars /\ UNCHANGED simVars /\ UNCHANGED websiteVars

\* return unique_papers, duplicate_count
Return ==
    /\ pc = "for" /\ i = Len(all_papers)
    /\ pc' = "done"
    /\ UNCHANGED <<all_papers, i, paper, unique_papers, duplicate_count, is_duplicate, j>>
    /\ UNCHANGED classifyVars /\ UNCHANGED simVars /\ UNCHANGED websiteVars

Next ==
    \/ ForNext
    \/ ScanMatch
    \/ ScanNoMatch
    \/ ScanEnd
    \/ AppendUnique
    \/ SkipDuplicate
    \/ Return

Spec == Init /\ [][Next]_vars

-----------------------------------------------------------------------------
(* Properties of deduplicate_papers, checked under Spec *)

\* the records of all_papers processed so far
Processed == SubSeq(all_papers, 1, i)

\* between two records and at the return
AtRecordBoundary == pc \in {"for", "done"}

\* C1: after every processed record, and so at the return, duplicate_count
\* plus the length of unique_papers is the number of records processed; at
\* the return that number is len(all_papers).
C1_CountPlusUnique ==
    /\ AtRecordBoundary => duplicate_count + Len(unique_papers) = i
    /\ pc = "done" => duplicate_count + Len(unique_papers) = Len(all_papers)

\* a run that returned with a duplicate removed and two records kept
C1_Witness ==
    pc = "done" /\ Len(all_papers) = 3 /\ duplicate_count = 1 /\ Len(unique_papers) = 2

\* u can be obtained from a by deleting elements
RECURSIVE IsSubsequence(_, _)
IsSubsequence(u, a) ==
    IF u = << >> THEN TRUE
    ELSE IF a = << >> THEN FALSE
    ELSE IF u[1] = a[1] THEN IsSubsequence(Tail(u), Tail(a))
    ELSE IsSubsequence(u, Tail(a))

\* none of the first n records is classified a duplicate of an earlier one
NoDuplicatePair(n) ==
    \A a, b \in 1..n :
        a < b => ~are_duplicates(all_papers[b], all_papers[a], DefaultThreshold)

\* C2: unique_papers is a subsequence of the input in input order, and when
\* no record is classified a duplicate of an earlier one it is the input
\* itself, with a duplicate count of 0.
C2_FirstSeenOrder ==
    AtRecordBoundary =>
        /\ IsSubsequence(unique_papers, Processed)
        /\ NoDuplicatePair(i) => (unique_papers = Processed /\ duplicate_count = 0)

\* a run that kept the first and the third record and dropped the second
C2_Witness ==
    /\ pc = "done" /\ Len(all_papers) = 3
    /\ all_papers[1] # all_papers[3]
    /\ unique_papers = <<all_papers[1], all_papers[3]>>
    /\ duplicate_count = 1

\* the current record is classified a duplicate of an accepted record
Matched ==
    \E k \in 1..Len(unique_papers) :
        are_duplicates(paper, unique_papers[k], DefaultThreshold)

\* the accepted records before position k + 1 do not match the current record
NoMatchBefore(k) ==
    \A m \in 1..k : ~are_duplicates(paper, unique_papers[m], DefaultThreshold)

C3_Step ==
    \* the scan goes on only past a record that does not match
    /\ (pc = "scan" /\ pc' = "scan") =>
           /\ ~are_duplicates(paper, unique_papers[j + 1], DefaultThreshold)
           /\ UNCHANGED <<unique_papers, duplicate_count>>
    \* it ends at the first match, counted once, or when nothing matches
    /\ (pc = "scan" /\ pc' = "endscan") =>
           /\ is_duplicate' = Matched
           /\ NoMatchBefore(j)
           /\ Matched => are_duplicates(paper, unique_papers[j + 1], DefaultThreshold)
           /\ duplicate_count' = duplicate_count + (IF Matched THEN 1 ELSE 0)
           /\ UNCHANGED unique_papers
    \* the record is appended exactly when nothing matched
    /\ pc = "endscan" =>
           /\ is_duplicate = Matched
           /\ unique_papers' = IF Matched THEN unique_papers
                               ELSE Append(unique_papers, paper)
           /\ UNCHANGED duplicate_count

\* C3: a record is appended to unique_papers if and only if are_duplicates is
\* false for it against every accepted record; otherwise it is discarded and
\* duplicate_count grows by exactly one, the scan stopping at the first
\* accepted record that matches.
C3_AcceptIffNoMatch == [][C3_Step]_vars

\* a record found to match the first of two accepted records: the scan
\* stopped before the second
C3_Witness ==
    pc = "endscan" /\ is_duplicate /\ j = 0 /\ Len(unique_papers) = 2

-----------------------------------------------------------------------------
(* deduplicate_papers and single calls of are_duplicates side by side *)

InitDedupClassify == Init \/ InitClassify

NextDedupClassify == Next \/ NextClassify

SpecDedupClassify == InitDedupClassify /\ [][NextDedupClassify]_vars

-----------------------------------------------------------------------------
(* Properties of are_duplicates, checked under SpecClassify.  The terms of  *)
(* the properties are defined here from the records, not from the steps of  *)
(* are_duplicates.                                                          *)

Returned == cpc = "returned"

Identifier(p) == Get(p, "doi", << >>)
Title(p) == Get(p, "title", << >>)
Authors(p) == Get(p, "authors", << >>)

\* the identifier trimmed and without case
TrimmedIdentifier(p) == LowerStr(Strip(Identifier(p)))

\* both identifiers are non-empty once trimmed, and equal without case
IdentifiersMatch(p1, p2) ==
    /\ TrimmedIdentifier(p1) # << >> /\ TrimmedIdentifier(p2) # << >>
    /\ TrimmedIdentifier(p1) = TrimmedIdentifier(p2)

NoTitle(p) == Title(p) = << >>

\* the title similarity of the two records of the call
Similarity == title_similarity(Title(paper1), Title(paper2))

\* C4 as stated: both identifiers are non-empty strings and equal after
\* trimming and ignoring case, so are_duplicates returns true.
C4_AsStated ==
    (/\ Returned
     /\ Identifier(paper1) # << >> /\ Identifier(paper2) # << >>
     /\ TrimmedIdentifier(paper1) = TrimmedIdentifier(paper2))
    => result = TRUE

\* C4, amended: are_duplicates returns true whenever both identifiers are
\* non-empty after trimming whitespace and equal ignoring case, whatever the
\* titles, the authors and the threshold are.
C4_IdentifierShortCircuit ==
    (Returned /\ IdentifiersMatch(paper1, paper2)) => result = TRUE

\* identifiers that differ as written and match once trimmed and lowercased,
\* on records whose titles are too dissimilar for the default threshold
C4_Witness ==
    /\ Returned /\ result = TRUE
    /\ IdentifiersMatch(paper1, paper2)
    /\ Identifier(paper1) # Identifier(paper2)
    /\ ~NoTitle(paper1) /\ ~NoTitle(paper2)
    /\ similarity_threshold = DefaultThreshold
    /\ ~RatioGE(Similarity, DefaultThreshold)

\* C5 as stated: a record without a title is never a duplicate of anything.
C5_AsStated ==
    (Returned /\ (NoTitle(paper1) \/ NoTitle(paper2))) => result = FALSE

\* C5, amended: a record without a title, in either position, is classified
\* a duplicate of another record only when the identifiers of the two match;
\* without an identifier match the result is false for every threshold.
C5_MissingTitle ==
    (/\ Returned
     /\ NoTitle(paper1) \/ NoTitle(paper2)
     /\ ~IdentifiersMatch(paper1, paper2))
    => result = FALSE

\* a record with a title and authors against a record with the same authors,
\* another identifier and no title, at threshold 0.0
C5_Witness ==
    /\ Returned /\ result = FALSE
    /\ ~NoTitle(paper1) /\ NoTitle(paper2)
    /\ Identifier(paper1) # << >> /\ Identifier(paper2) # << >>
    /\ ~IdentifiersMatch(paper1, paper2)
    /\ Authors(paper1) # << >> /\ Authors(paper1) = Authors(paper2)
    /\ similarity_threshold = Zero

\* C7: without an identifier match, are_duplicates returns false whenever the
\* title similarity is strictly below the threshold, whatever the authors.
C7_BelowThreshold ==
    (/\ Returned
     /\ ~IdentifiersMatch(paper1, paper2)
     /\ ~RatioGE(Similarity, similarity_threshold))
    => result = FALSE

\* two titled records with the same authors and a similarity between 0 and
\* the default threshold
C7_Witness ==
    /\ Returned /\ result = FALSE
    /\ ~IdentifiersMatch(paper1, paper2)
    /\ similarity_threshold = DefaultThreshold
    /\ Similarity.num > 0 /\ ~RatioGE(Similarity, DefaultThreshold)
    /\ Authors(paper1) # << >> /\ Authors(paper1) = Authors(paper2)
    /\ normalize_authors(Authors(paper1)) # << >>

\* the author set of a record: the normalized names of its author entries,
\* the empty ones discarded
AuthorSignature(p) ==
    {normalize_string(AuthorName(Authors(p)[n])) : n \in 1..Len(Authors(p))} \ {<< >>}

\* the two author sets share at least half of the smaller one
OverlapAtLeastHalf(s1, s2) ==
    2 * Cardinality(s1 \cap s2) >= Min({Cardinality(s1), Cardinality(s2)})

\* no identifier match, both titles present, similarity at or above the threshold
AuthorsDecide ==
    /\ Returned
    /\ ~IdentifiersMatch(paper1, paper2)
    /\ ~NoTitle(paper1) /\ ~NoTitle(paper2)
    /\ RatioGE(Similarity, similarity_threshold)

\* C8: when the authors decide and both records have at least one author,
\* are_duplicates returns true if and only if the author names common to both
\* author sets are at least half of the smaller set.
C8_AuthorOverlap ==
    (/\ AuthorsDecide
     /\ AuthorSignature(paper1) # {} /\ AuthorSignature(paper2) # {})
    => (result = TRUE <=> OverlapAtLeastHalf(AuthorSignature(paper1), AuthorSignature(paper2)))

\* C9: when the authors decide and a record has no author information,
\* are_duplicates returns true if and only if the title similarity is at
\* least 0.95.
C9_NoAuthorFallback ==
    (/\ AuthorsDecide
     /\ AuthorSignature(paper1) = {} \/ AuthorSignature(paper2) = {})
    => (result = TRUE <=> RatioGE(Similarity, FallbackThreshold))

-----------------------------------------------------------------------------
(* Records with neither an identifier nor a title, checked under            *)
(* SpecDedupClassify                                                        *)

Neither(p) == Identifier(p) = << >> /\ NoTitle(p)

\* the number of records of the list that have neither
RECURSIVE CountNeither(_)
CountNeither(ps) ==
    IF ps = << >> THEN 0
    ELSE (IF Neither(ps[1]) THEN 1 ELSE 0) + CountNeither(Tail(ps))

\* C6: a record with neither an identifier nor a title is never classified a
\* duplicate by are_duplicates, in either position; deduplicate_papers keeps
\* every such record and discards no record because of one.
C6_NeitherNeverDuplicate ==
    /\ (Returned /\ (Neither(paper1) \/ Neither(paper2))) => result = FALSE
    /\ (pc = "endscan" /\ is_duplicate) =>
           (~Neither(paper) /\ ~Neither(unique_papers[j + 1]))
    /\ AtRecordBoundary => CountNeither(unique_papers) = CountNeither(Processed)

\* a run that kept two equal records with neither an identifier nor a title,
\* and a third record after them
C6_Witness ==
    /\ pc = "done" /\ Len(all_papers) = 3
    /\ Neither(all_papers[1]) /\ all_papers[2] = all_papers[1]
    /\ Authors(all_papers[1]) # << >>
    /\ ~Neither(all_papers[3])
    /\ unique_papers = all_papers

-----------------------------------------------------------------------------
(* Properties of title_similarity, checked under SpecSim and SpecSimLong *)

\* C10: title_similarity(a, b) = title_similarity(b, a) for all strings a, b.
C10_Commutative ==
    spc = "returned" => RatioEq(sim12, sim21)


\* C11: title_similarity is exactly 1.0 for two strings with the same
\* non-empty normalized form, 0.0 whenever a string normalizes to the empty
\* string, and always between 0.0 and 1.0.
C11_IdentityZeroRange ==
    spc = "returned" =>
        LET n1 == normalize_string(title1)
            n2 == normalize_string(title2)
        IN  /\ (n1 = n2 /\ n1 # << >>) => (sim12.num = sim12.den /\ sim12.den > 0)
            /\ (n1 = << >> \/ n2 = << >>) => sim12.num = 0
            /\ 0 <= sim12.num /\ sim12.num <= sim12.den

\* two different strings with the same normalized form of 200 characters, all
\* of them popular for the automatic junk heuristic, scored 1.0
C11_Witness ==
    /\ spc = "returned"
    /\ title1 # title2
    /\ normalize_string(title1) = normalize_string(title2)
    /\ Len(normalize_string(title1)) >= AutoJunkLen
    /\ bpopular(normalize_string(title2)) = Range(normalize_string(title2))
    /\ sim12.num = sim12.den

-----------------------------------------------------------------------------
(* Properties of normalize_string, checked under SpecNorm *)

\* C12: normalize_string(normalize_string(s)) = normalize_string(s) for every
\* string s, and the empty string gives the empty string.
C12_Idempotent ==
    npc = "returned" =>
        /\ norm_twice = norm_once
        /\ norm_in = << >> => norm_once = << >>

\* a string that normalization changes, to a result with a space inside
C12_Witness ==
    /\ npc = "returned"
    /\ norm_once # norm_in
    /\ Len(norm_once) = 3 /\ norm_once[2] = " "
    /\ norm_twice = norm_once

-----------------------------------------------------------------------------
(* build_website.py: load_pdf_map, and the strings load_reference_map uses.
   The two curly double quotes are the characters named by their code
   points, "U+201C" and "U+201D". *)

OpenCurly == "U+201C"
CloseCurly == "U+201D"
Straight == "\""

\* the value None; `not target_pdf` is true of it
None == << >>

\* best_score before line 142 has assigned it
Unbound == 0 - 1

\* f.lower().endswith(".pdf")
DotPdf ==
    <<".", "p", "d", "f">>

EndsWithPdf(f) ==
    /\ Len(f) >= Len(DotPdf)
    /\ LowerStr(SubSeq(f, Len(f) - Len(DotPdf) + 1, Len(f))) = DotPdf

\* the length of the run of digits that f starts with
LeadingDigits(f) ==
    CHOOSE k \in 0..Len(f) :
        /\ \A n \in 1..k : f[n] \in Range(Digits)
        /\ k = Len(f) \/ f[k + 1] \notin Range(Digits)

\* re.match(r"^(\d+)-", f)
NumberPrefix(f) ==
    /\ LeadingDigits(f) >= 1
    /\ LeadingDigits(f) < Len(f)
    /\ f[LeadingDigits(f) + 1] = "-"

\* int(s) of a string of digits
RECURSIVE int(_)
int(s) ==
    IF s = << >> THEN 0
    ELSE LET d == CHOOSE n \in 1..Len(Digits) : Digits[n] = s[Len(s)]
         IN  int(SubSeq(s, 1, Len(s) - 1)) * 10 + (d - 1)

\* a dict from paper number to file name is the sequence of its items in
\* insertion order
HasKey(pdfs, num) == \E n \in 1..Len(pdfs) : pdfs[n].num = num

Lookup(pdfs, num) == pdfs[CHOOSE n \in 1..Len(pdfs) : pdfs[n].num = num].file

\* pdf_map[num] = f
SetItem(pdfs, num, f) ==
    IF HasKey(pdfs, num)
    THEN [n \in 1..Len(pdfs) |->
            IF pdfs[n].num = num THEN [num |-> num, file |-> f] ELSE pdfs[n]]
    ELSE Append(pdfs, [num |-> num, file |-> f])

\* the loop of load_pdf_map over os.listdir(PDF_DIR)
RECURSIVE ListDir(_, _)
ListDir(listing, pdfs) ==
    IF listing = << >> THEN pdfs
    ELSE LET f == Head(listing)
         IN  IF EndsWithPdf(f) /\ NumberPrefix(f)
             THEN ListDir(Tail(listing),
                          SetItem(pdfs, int(SubSeq(f, 1, LeadingDigits(f))), f))
             ELSE ListDir(Tail(listing), pdfs)

load_pdf_map(listing) == ListDir(listing, << >>)

-----------------------------------------------------------------------------
(* build_website.py: the body of the loop of load_reference_map *)

\* the position of the first `close` after position p of txt, or 0
NextQuote(txt, p, close) ==
    LET after == {q \in (p + 1)..Len(txt) : txt[q] = close}
    IN  IF after = {} THEN 0 ELSE CHOOSE q \in after : \A q2 \in after : q <= q2

\* re.search of  open ([^close]+) close  in txt: the leftmost match
re_search(txt, open, close) ==
    LET starts == {p \in 1..Len(txt) : txt[p] = open /\ NextQuote(txt, p, close) > p + 1}
    IN  IF starts = {} THEN [found |-> FALSE]
        ELSE LET p == CHOOSE p1 \in starts : \A p2 \in starts : p1 <= p2
             IN  [found |-> TRUE, group |-> SubSeq(txt, p + 1, NextQuote(txt, p, close) - 1)]

\* the extraction taking the whole text when it holds no quoted title
TitleMatch_WholeText(ref_text) ==
    LET curly == re_search(ref_text, OpenCurly, CloseCurly)
        straight == re_search(ref_text, Straight, Straight)
    IN  IF curly.found THEN curly
        ELSE IF straight.found THEN straight
        ELSE [found |-> TRUE, group |-> ref_text]

\* lines 105-107: the curly quotes first, then the straight ones
TitleMatch(ref_text) ==
    LET curly == re_search(ref_text, OpenCurly, CloseCurly)
    IN  IF curly.found THEN curly ELSE re_search(ref_text, Straight, Straight)

\* needle in hay
In(needle, hay) ==
    \E n \in 0..(Len(hay) - Len(needle)) : SubSeq(hay, n + 1, n + Len(needle)) = needle

\* lines 116-117
TitleContainment(title, row) ==
    \/ In(LowerStr(title), LowerStr(Get(row, "Title", << >>)))
    \/ In(LowerStr(Get(row, "Title", << >>)), LowerStr(title))

\* line 119
p_num_str(row) == Strip(Get(row, "Paper Number", << >>))

\* s.isdigit()
IsDigit(s) == s # << >> /\ \A n \in 1..Len(s) : s[n] \in Range(Digits)

\* lines 116-122: the row matches and its paper number is a key of pdf_map
RowHit(title, row, pdfs) ==
    /\ TitleContainment(title, row)
    /\ IsDigit(p_num_str(row))
    /\ HasKey(pdfs, int(p_num_str(row)))

\* the loop over included_papers without its break: the last hit wins
RECURSIVE CheckIncluded_NoBreak(_, _, _)
CheckIncluded_NoBreak(title, rows, pdfs) ==
    IF rows = << >> THEN None
    ELSE LET later == CheckIncluded_NoBreak(title, Tail(rows), pdfs)
         IN  IF later # None THEN later
             ELSE IF RowHit(title, Head(rows), pdfs)
                  THEN Lookup(pdfs, int(p_num_str(Head(rows))))
                  ELSE None

\* lines 115-124: the loop over included_papers
RECURSIVE CheckIncluded(_, _, _)
CheckIncluded(title, rows, pdfs) ==
    IF rows = << >> THEN None
    ELSE IF RowHit(title, Head(rows), pdfs)
         THEN Lookup(pdfs, int(p_num_str(Head(rows))))
         ELSE CheckIncluded(title, Tail(rows), pdfs)

\* lines 127-135: the loop over csv_papers, whose body is `pass`
CheckCsv(title, rows, target) == target

\* the length of the run of word characters that s starts with
WordRun(s) ==
    CHOOSE k \in 0..Len(s) :
        /\ \A n \in 1..k : IsWord(s[n])
        /\ k = Len(s) \/ ~IsWord(s[k + 1])

\* the length of the run of other characters that s starts with
NonWordRun(s) ==
    CHOOSE k \in 0..Len(s) :
        /\ \A n \in 1..k : ~IsWord(s[n])
        /\ k = Len(s) \/ IsWord(s[k + 1])

\* re.split(r"\W+", s)
RECURSIVE re_split(_)
re_split(s) ==
    LET w == WordRun(s)
    IN  IF w = Len(s) THEN <<s>>
        ELSE <<SubSeq(s, 1, w)>>
                 \o re_split(SubSeq(s, w + NonWordRun(SubSeq(s, w + 1, Len(s))) + 1, Len(s)))

LongToken(w) == Len(w) > 4

\* line 141
title_tokens(title) == SelectSeq(re_split(title), LongToken)

\* line 144
score(tokens, p_file) ==
    Cardinality({n \in 1..Len(tokens) : In(LowerStr(tokens[n]), LowerStr(p_file))})

\* the loop over pdf_map.items() taking a score equal to the best: the last
\* of the best wins
RECURSIVE SearchFilenames_LastWins(_, _, _, _)
SearchFilenames_LastWins(tokens, pdfs, best, target) ==
    IF pdfs = << >> THEN [best_score |-> best, target_pdf |-> target]
    ELSE IF score(tokens, Head(pdfs).file) >= best /\ score(tokens, Head(pdfs).file) >= 2
         THEN SearchFilenames_LastWins(tokens, Tail(pdfs), score(tokens, Head(pdfs).file),
                                       Head(pdfs).file)
         ELSE SearchFilenames_LastWins(tokens, Tail(pdfs), best, target)

\* lines 143-147: the loop over pdf_map.items()
RECURSIVE SearchFilenames(_, _, _, _)
SearchFilenames(tokens, pdfs, best, target) ==
    IF pdfs = << >> THEN [best_score |-> best, target_pdf |-> target]
    ELSE IF score(tokens, Head(pdfs).file) > best /\ score(tokens, Head(pdfs).file) >= 2
         THEN SearchFilenames(tokens, Tail(pdfs), score(tokens, Head(pdfs).file),
                              Head(pdfs).file)
         ELSE SearchFilenames(tokens, Tail(pdfs), best, target)

\* lines 105-147: one pass of the loop body.  A name the pass does not assign
\* keeps the value it had (old_title, old_best).
ResolveReference(ref_text, included, csv, pdfs, old_title, old_best) ==
    LET tm == TitleMatch(ref_text)
        structural == IF tm.found
                      THEN CheckCsv(tm.group, csv, CheckIncluded(tm.group, included, pdfs))
                      ELSE None
        filenames == SearchFilenames(title_tokens(tm.group), pdfs, 0, None)
    IN  IF ~tm.found
        THEN [title_match |-> FALSE, search_title |-> old_title, target_pdf |-> None,
              best_score |-> old_best]
        ELSE IF structural # None
        THEN [title_match |-> TRUE, search_title |-> tm.group, target_pdf |-> structural,
              best_score |-> old_best]
        ELSE [title_match |-> TRUE, search_title |-> tm.group,
              target_pdf |-> filenames.target_pdf, best_score |-> filenames.best_score]

\* line 150: f"paper_for_full_text_review/{target_pdf}"
LinkPrefix ==
    <<"p", "a", "p", "e", "r", "_", "f", "o", "r", "_", "f", "u", "l", "l", "_", "t", "e",
        "x", "t", "_", "r", "e", "v", "i", "e", "w", "/">>

Link(target) == LinkPrefix \o target

\* d[key] = value
Put(d, key, value) ==
    [x \in DOMAIN d \cup {key} |-> IF x = key THEN value ELSE d[x]]

-----------------------------------------------------------------------------
(* The references, metadata rows and directory listings of the model *)

\* the most rows of included_papers
MaxRows == 2

\* file names in PDF_DIR
Pdf3 ==
    <<"3", "-", "c", "l", "o", "u", "d", "-", "d", "r", "i", "f", "t", ".", "p", "d", "f">>
Pdf5 ==
    <<"5", "-", "d", "r", "i", "f", "t", "-", "c", "l", "o", "u", "d", ".", "p", "d", "f">>
Pdf7 ==
    <<"7", "-", "c", "l", "o", "u", "d", ".", "p", "d", "f">>
Pdf9 ==
    <<"0", "9", "-", "C", "l", "o", "u", "d", "-", "D", "r", "i", "f", "t", "-", "I", "n",
        "f", "r", "a", ".", "P", "D", "F">>
PdfNoNumber ==
    <<"c", "l", "o", "u", "d", "-", "d", "r", "i", "f", "t", ".", "p", "d", "f">>
NotPdf ==
    <<"3", "-", "c", "l", "o", "u", "d", ".", "t", "x", "t">>
Pdf3Again ==
    <<"0", "3", "-", "i", "n", "f", "r", "a", ".", "p", "d", "f">>

\* what os.listdir(PDF_DIR) can return
Listings ==
    { << >>, <<Pdf3, Pdf5>>, <<Pdf5, Pdf3>>, <<Pdf7>>, <<Pdf3, Pdf9>>, <<Pdf9, Pdf3>>,
      <<PdfNoNumber, Pdf7, NotPdf>>, <<Pdf3, Pdf5, Pdf3Again>>, <<Pdf5, Pdf9>> }

\* reference texts
RefStraight ==
    <<"A", ",", " ", "\"", "C", "l", "o", "u", "d", " ", "D", "r", "i", "f", "t", ",",
        "\"", " ", "2", "0", "2", "1", ".">>
RefCurly ==
    <<"U+201C", "C", "l", "o", "u", "d", " ", "D", "r", "i", "f", "t", " ", "I", "n", "f",
        "r", "a", "U+201D", ".">>
RefNoQuotes ==
    <<"C", ",", " ", "C", "l", "o", "u", "d", " ", "D", "r", "i", "f", "t", ",", " ", "2",
        "0", "2", "0", ".">>
RefRepeated ==
    <<"\"", "c", "l", "o", "u", "d", " ", "c", "l", "o", "u", "d", "\"">>
RefOneToken ==
    <<"\"", "C", "l", "o", "u", "d", " ", "t", "o", "o", "l", "s", "\"">>
RefEmptyQuotes ==
    <<"\"", "\"", " ", "\"", "I", "n", "f", "r", "a", "\"">>
RefBothStyles ==
    <<"\"", "D", "r", "i", "f", "t", "\"", " ", "U+201C", "C", "l", "o", "u", "d", " ",
        "I", "n", "f", "r", "a", "U+201D">>
RefUnclosed ==
    <<"\"", "C", "l", "o", "u", "d", " ", "D", "r", "i", "f", "t">>

RefTexts ==
    { RefStraight, RefCurly, RefNoQuotes, RefRepeated, RefOneToken, RefEmptyQuotes,
      RefBothStyles, RefUnclosed }

RefEntry(id, text) == [ref_id |-> id, ref_text |-> text]

\* what re.findall gives for the references section: the entries in order
RefEntryLists ==
    { << >> }
    \cup { <<RefEntry(<<"1">>, text)>> : text \in RefTexts }
    \cup { <<RefEntry(<<"1">>, RefStraight), RefEntry(<<"2">>, RefRepeated)>>,
           <<RefEntry(<<"1">>, RefStraight), RefEntry(<<"1">>, RefNoQuotes)>>,
           <<RefEntry(<<"1">>, RefNoQuotes), RefEntry(<<"1">>, RefCurly)>>,
           <<RefEntry(<<"1">>, RefStraight), RefEntry(<<"1">>, RefCurly)>> }

\* known titles of the metadata files
KnownCloudDrift ==
    <<"C", "l", "o", "u", "d", " ", "D", "r", "i", "f", "t">>
KnownSurvey ==
    <<"c", "l", "o", "u", "d", " ", "d", "r", "i", "f", "t", " ", "i", "n", "f", "r", "a",
        " ", "s", "u", "r", "v", "e", "y">>
CsvTitle ==
    <<"C", "l", "o", "u", "d", " ", "D", "r", "i", "f", "t", " ", "I", "n", "f", "r", "a",
        " ", "T", "o", "o", "l", "s">>

\* "Paper Number" fields
Number3 ==
    <<"3">>
Number9Spaced ==
    <<" ", "9", " ">>
Number5 ==
    <<"5">>
NumberNotDigits ==
    <<"3", "a">>

Row(title, number) == [x \in {"Title", "Paper Number"} |-> IF x = "Title" THEN title ELSE number]

\* the rows of the included-papers file, before its header selects columns
IncludedRows ==
    { Row(KnownCloudDrift, Number3), Row(KnownSurvey, Number9Spaced), Row(<< >>, Number5),
      Row(KnownCloudDrift, NumberNotDigits) }

\* the columns the header of the included-papers file can name
Headers == { {"Title", "Paper Number"}, {"Title"} }

Columns(row, header) == [x \in header |-> row[x]]

\* csv.DictReader over the included-papers file, or [] without the file
IncludedLists ==
    UNION { SeqsUpTo({Columns(row, header) : row \in IncludedRows}, MaxRows) :
            header \in Headers }

\* csv.DictReader over the screening file, or [] without the file
CsvLists == { << >>, <<[x \in {"Paper Title"} |-> CsvTitle]>> }

-----------------------------------------------------------------------------
(* load_reference_map(pdf_map): the loop over ref_entries *)

InitResolve ==
    /\ ref_entries \in RefEntryLists
    /\ csv_papers \in CsvLists
    /\ included_papers \in IncludedLists
    /\ pdf_map \in {load_pdf_map(listing) : listing \in Listings}
    /\ ref_pos = 0
    /\ title_match = FALSE
    /\ search_title = None
    /\ target_pdf = None
    /\ best_score = Unbound
    /\ ref_link_map = << >>
    /\ rpc = "loop"
    /\ DedupIdle /\ ClassifyIdle /\ SimIdle /\ NormIdle /\ RunIdle

\* lines 99-154: one pass of the loop
ForRefEntry ==
    /\ rpc = "loop"
    /\ ref_pos < Len(ref_entries)
    /\ LET entry == ref_entries[ref_pos + 1]
           out == ResolveReference(entry.ref_text, included_papers, csv_papers, pdf_map,
                                   search_title, best_score)
       IN  /\ title_match' = out.title_match
           /\ search_title' = out.search_title
           /\ target_pdf' = out.target_pdf
           /\ best_score' = out.best_score
           /\ ref_link_map' = IF out.target_pdf # None
                              THEN Put(ref_link_map, entry.ref_id, Link(out.target_pdf))
                              ELSE ref_link_map
    /\ ref_pos' = ref_pos + 1
    /\ UNCHANGED <<ref_entries, csv_papers, included_papers, pdf_map, rpc>>
    /\ UNCHANGED <<dedupVars, classifyVars, simVars, normVars, runVars>>

\* line 156
ReturnRefLinkMap ==
    /\ rpc = "loop"
    /\ ref_pos = Len(ref_entries)
    /\ rpc' = "returned"
    /\ UNCHANGED <<ref_entries, csv_papers, included_papers, pdf_map, ref_pos, title_match,
                   search_title, target_pdf, best_score, ref_link_map>>
    /\ UNCHANGED <<dedupVars, classifyVars, simVars, normVars, runVars>>

NextResolve == ForRefEntry \/ ReturnRefLinkMap

SpecResolve == InitResolve /\ [][NextResolve]_vars

-----------------------------------------------------------------------------
(* The loop body run for one reference on two listings of one directory
   that give the same pdf_map items *)

InitRun ==
    /\ run_text \in RefTexts
    /\ run_included \in IncludedLists
    /\ \E la \in Listings, lb \in Listings :
          /\ Range(load_pdf_map(la)) = Range(load_pdf_map(lb))
          /\ run_pdf_map_a = load_pdf_map(la)
          /\ run_pdf_map_b = load_pdf_map(lb)
    /\ run_target_a = None
    /\ run_target_b = None
    /\ run_pc = "call"
    /\ DedupIdle /\ ClassifyIdle /\ SimIdle /\ NormIdle /\ ResolveIdle

RunTwice ==
    /\ run_pc = "call"
    /\ run_target_a' =
          ResolveReference(run_text, run_included, << >>, run_pdf_map_a, None, Unbound).target_pdf
    /\ run_target_b' =
          ResolveReference(run_text, run_included, << >>, run_pdf_map_b, None, Unbound).target_pdf
    /\ run_pc' = "returned"
    /\ UNCHANGED <<run_text, run_included, run_pdf_map_a, run_pdf_map_b>>
    /\ UNCHANGED <<dedupVars, classifyVars, simVars, normVars, resolveVars>>

NextRun == RunTwice

SpecRun == InitRun /\ [][NextRun]_vars

-----------------------------------------------------------------------------
(* The vocabulary of the reference resolver: citation text, extracted title,
   the higher-priority pool (included_papers), the secondary pool
   (csv_papers), the candidate documents (pdf_map) *)

\* a pass of the loop: the resolver handles the reference after ref_pos
Pass == ref_pos' = ref_pos + 1

\* the reference that pass handles
Citation == ref_entries[ref_pos + 1]

\* the reference the last pass handled
Handled == ref_entries[ref_pos]

\* text holds at least one character between `open` and the nearest `close`
QuotedBetween(text, open, close) ==
    \E p \in 1..Len(text), q \in 1..Len(text) :
        /\ p + 1 < q
        /\ text[p] = open
        /\ text[q] = close
        /\ \A n \in (p + 1)..(q - 1) : text[n] # close

HasQuotedTitle(text) ==
    \/ QuotedBetween(text, OpenCurly, CloseCurly)
    \/ QuotedBetween(text, Straight, Straight)

KnownTitle(row) == Get(row, "Title", << >>)

\* one title contains the other, ignoring case
StructuralMatch(title, row) ==
    \/ In(LowerStr(title), LowerStr(KnownTitle(row)))
    \/ In(LowerStr(KnownTitle(row)), LowerStr(title))

\* the document that the paper number of a row names, or None
Document(row, pdfs) ==
    LET number == Strip(Get(row, "Paper Number", << >>))
    IN  IF IsDigit(number) /\ HasKey(pdfs, int(number))
        THEN Lookup(pdfs, int(number))
        ELSE None

\* the rows of the higher-priority pool that match the title structurally
MatchingRows(title, rows) == {n \in 1..Len(rows) : StructuralMatch(title, rows[n])}

\* those of them whose paper number names a document of the pool
LinkedRows(title, rows, pdfs) ==
    {n \in MatchingRows(title, rows) : Document(rows[n], pdfs) # None}

Least(S) == CHOOSE n \in S : \A m \in S : n <= m

\* the long tokens of a title, by position: the maximal runs of word
\* characters that are longer than 4 characters
LongTokens(title) ==
    {run \in (1..Len(title)) \X (1..Len(title)) :
        /\ run[2] - run[1] + 1 > 4
        /\ \A n \in run[1]..run[2] : IsWord(title[n])
        /\ run[1] = 1 \/ ~IsWord(title[run[1] - 1])
        /\ run[2] = Len(title) \/ ~IsWord(title[run[2] + 1])}

TokenAt(title, run) == LowerStr(SubSeq(title, run[1], run[2]))

\* the title tokens that occur in the searchable text of a document
SharedTokens(title, file) ==
    {run \in LongTokens(title) : In(TokenAt(title, run), LowerStr(file))}

\* the score of the token-overlap fallback
OverlapScore(title, file) == Cardinality(SharedTokens(title, file))

TopScore(title, pdfs) ==
    IF pdfs = << >> THEN 0
    ELSE LET scores == {OverlapScore(title, pdfs[n].file) : n \in 1..Len(pdfs)}
         IN  CHOOSE top \in scores : \A other \in scores : other <= top

\* the documents with the top score, by position in the pool
TopScorers(title, pdfs) ==
    LET top == TopScore(title, pdfs)
    IN  {n \in 1..Len(pdfs) : OverlapScore(title, pdfs[n].file) = top}

\* C13: a pass over a citation text without a quoted title adds no entry to the
\* reference link map and leaves the citation unresolved.
C13_NoQuotedTitle ==
    [][(Pass /\ ~HasQuotedTitle(Citation.ref_text))
          => (ref_link_map' = ref_link_map /\ target_pdf' = None)]_vars

\* a citation without quotes was handled and has no link, although a document
\* of the pool shares two long tokens with its text
C13_Witness ==
    /\ ref_pos = 1
    /\ ~HasQuotedTitle(Handled.ref_text)
    /\ \E n \in 1..Len(pdf_map) : OverlapScore(Handled.ref_text, pdf_map[n].file) >= 2
    /\ Handled.ref_id \notin DOMAIN ref_link_map
    /\ target_pdf = None

\* C14 as stated: when a title was extracted and a row of the higher-priority
\* pool matches it structurally, the resolver returns the document of the
\* first matching row and does not consult the fallback.
C14_AsStated ==
    [][(Pass /\ title_match' /\ MatchingRows(search_title', included_papers) # {})
          => LET first == Least(MatchingRows(search_title', included_papers))
             IN  /\ target_pdf' # None
                 /\ target_pdf' = Document(included_papers[first], pdf_map)
                 /\ best_score' = best_score]_vars

\* C14: when a title was extracted and a structurally matching row of the
\* higher-priority pool has a paper number that names a document of the
\* pool, the resolver returns the document of the first such row and does
\* not consult the fallback.
C14_FirstLinkedMatch ==
    [][(Pass /\ title_match' /\ LinkedRows(search_title', included_papers, pdf_map) # {})
          => LET first == Least(LinkedRows(search_title', included_papers, pdf_map))
             IN  /\ target_pdf' = Document(included_papers[first], pdf_map)
                 /\ best_score' = best_score]_vars

\* the first matching row names no document, the second does and is returned;
\* the fallback, never consulted, would have returned another document
C14_Witness ==
    /\ ref_pos = 1
    /\ title_match
    /\ MatchingRows(search_title, included_papers) = {1, 2}
    /\ LinkedRows(search_title, included_papers, pdf_map) = {2}
    /\ target_pdf = Document(included_papers[2], pdf_map)
    /\ best_score = Unbound
    /\ TopScore(search_title, pdf_map) >= 2
    /\ pdf_map[Least(TopScorers(search_title, pdf_map))].file # target_pdf

\* C15: when a title was extracted, no row of the higher-priority pool matches
\* it structurally and a row of the secondary pool contains it, the resolver
\* returns a structural match: the citation is resolved and the fallback is
\* not consulted.
C15_SecondaryPool ==
    [][(/\ Pass
        /\ title_match'
        /\ MatchingRows(search_title', included_papers) = {}
        /\ \E n \in 1..Len(csv_papers) :
              In(LowerStr(search_title'), LowerStr(Get(csv_papers[n], "Paper Title", << >>))))
          => (target_pdf' # None /\ best_score' = best_score)]_vars

\* C16: when the fallback decides (a title was extracted and no matching row
\* names a document), the resolver returns the first document of the pool,
\* in iteration order, among those with the top score, provided the top
\* score is at least 2, and leaves the citation unresolved otherwise.
C16_TokenOverlap ==
    (/\ ref_pos >= 1
     /\ title_match
     /\ LinkedRows(search_title, included_papers, pdf_map) = {})
        => IF TopScore(search_title, pdf_map) >= 2
           THEN target_pdf = pdf_map[Least(TopScorers(search_title, pdf_map))].file
           ELSE target_pdf = None

\* two documents share the top score and the first of them is returned
C16_Witness ==
    /\ ref_pos >= 1
    /\ title_match
    /\ LinkedRows(search_title, included_papers, pdf_map) = {}
    /\ TopScore(search_title, pdf_map) >= 2
    /\ Cardinality(TopScorers(search_title, pdf_map)) = 2
    /\ Least(TopScorers(search_title, pdf_map)) = 1
    /\ target_pdf = pdf_map[1].file
    /\ Handled.ref_id \in DOMAIN ref_link_map
    /\ ref_link_map[Handled.ref_id] = Link(pdf_map[1].file)

\* C17: when no row matches structurally and the title shares at most one long
\* token with each document (a token that occurs several times in the title
\* being one token), the citation is left unresolved.
C17_OneSharedToken ==
    (/\ ref_pos >= 1
     /\ title_match
     /\ MatchingRows(search_title, included_papers) = {}
     /\ \A n \in 1..Len(pdf_map) :
           Cardinality({TokenAt(search_title, run) :
                           run \in SharedTokens(search_title, pdf_map[n].file)}) <= 1)
        => target_pdf = None

\* C18: two runs on the same citation text, the same metadata rows and the
\* same number-to-document pairs return the same document, in whatever
\* order the pairs are enumerated.
C18_OrderIndependent ==
    (run_pc = "returned" /\ Range(run_pdf_map_a) = Range(run_pdf_map_b))
        => run_target_a = run_target_b

-----------------------------------------------------------------------------
(* Properties of deduplicate_papers and are_duplicates as functions of their
   arguments *)

\* C19: no step of deduplicate_papers changes the input sequence or a field
\* of a record in it, the accepted records are records of the input as they
\* were given, and are_duplicates changes neither of its two records.
C19_InputsUnchanged ==
    [][/\ all_papers' = all_papers
       /\ paper1' = paper1
       /\ paper2' = paper2
       /\ \A n \in 1..Len(unique_papers') : unique_papers'[n] \in Range(all_papers)]_vars

\* a finished run over three records, one of them discarded, in which a title
\* that normalization would change was compared and kept as given
C19_Witness ==
    /\ pc = "done" /\ Len(all_papers) = 3
    /\ duplicate_count = 1
    /\ \E n \in 1..Len(unique_papers) :
          /\ Title(unique_papers[n]) # << >>
          /\ normalize_string(Title(unique_papers[n])) # Title(unique_papers[n])

\* the threshold 0.85
EightyFiveHundredths == [num |-> 85, den |-> 100]

\* deduplication as a fold of the input with are_duplicates at threshold t
AcceptOrCount(acc, record, t) ==
    IF \E n \in 1..Len(acc.unique) : are_duplicates(record, acc.unique[n], t)
    THEN [unique |-> acc.unique, count |-> acc.count + 1]
    ELSE [unique |-> Append(acc.unique, record), count |-> acc.count]

RECURSIVE FoldFrom(_, _, _)
FoldFrom(acc, records, t) ==
    IF records = << >> THEN acc
    ELSE FoldFrom(AcceptOrCount(acc, Head(records), t), Tail(records), t)

Fold(records, t) == FoldFrom([unique |-> << >>, count |-> 0], records, t)

Outputs == [unique |-> unique_papers, count |-> duplicate_count]

\* C20 as stated: for every threshold t the outputs are those of the fold of
\* the input with are_duplicates at t.
C20_AsStated ==
    pc = "done" => \A t \in Thresholds : Outputs = Fold(all_papers, t)

\* C20: the outputs are those of the fold of the input with are_duplicates at
\* the threshold 0.85, the only threshold deduplicate_papers uses.
C20_FoldAtDefault ==
    pc = "done" => Outputs = Fold(all_papers, EightyFiveHundredths)

\* a finished run whose outputs differ from the fold at another threshold
C20_Witness ==
    /\ pc = "done"
    /\ duplicate_count >= 1
    /\ Len(unique_papers) >= 2
    /\ Outputs = Fold(all_papers, EightyFiveHundredths)
    /\ Outputs # Fold(all_papers, Zero)

-----------------------------------------------------------------------------
(* Properties of are_duplicates on partially populated records, checked under
   SpecClassify *)

\* C21: every call of are_duplicates, whatever identifier, title and author
\* list each record has or lacks, returns a boolean and raises nothing; the
\* division by the smaller author-set size never divides by zero.
C21_NeverRaises ==
    cpc \in {"returned", "raised"} =>
        /\ cpc = "returned"
        /\ raised = NoException
        /\ result \in BOOLEAN

\* a call that reached the division with two author lists made of
\* punctuation-only names, and returned
C21_Witness ==
    /\ Returned
    /\ Identifier(paper1) = << >> /\ Identifier(paper2) = << >>
    /\ Authors(paper1) # << >> /\ Authors(paper2) # << >>
    /\ \A n \in 1..Len(Authors(paper1)) :
          normalize_string(AuthorName(Authors(paper1)[n])) = << >>
    /\ \A n \in 1..Len(Authors(paper2)) :
          normalize_string(AuthorName(Authors(paper2)[n])) = << >>
    /\ normalize_authors(Authors(paper1)) # << >>
    /\ normalize_authors(Authors(paper2)) # << >>
    /\ RatioGE(Similarity, similarity_threshold)
    /\ Title(paper1) # << >> /\ Title(paper2) # << >>
    /\ result = TRUE

-----------------------------------------------------------------------------
(* Properties of title_similarity and normalize_string as functions *)

\* the length of the longest common subsequence of two strings
RECURSIVE LcsLen(_, _)
LcsLen(s, t) ==
    IF s = << >> \/ t = << >> THEN 0
    ELSE IF s[1] = t[1] THEN 1 + LcsLen(Tail(s), Tail(t))
    ELSE LET skipS == LcsLen(Tail(s), t)
             skipT == LcsLen(s, Tail(t))
         IN  IF skipS >= skipT THEN skipS ELSE skipT

\* C22: for two strings that are non-empty once normalized, title_similarity
\* is twice the length of the longest common subsequence of the normalized
\* strings over the sum of their lengths.
C22_LongestCommonSubsequence ==
    (/\ spc = "returned"
     /\ normalize_string(title1) # << >>
     /\ normalize_string(title2) # << >>)
        => RatioEq(sim12,
                   [num |-> 2 * LcsLen(normalize_string(title1), normalize_string(title2)),
                    den |-> Len(normalize_string(title1)) + Len(normalize_string(title2))])

\* C23: the result of normalize_string holds only lowercase letters, digits
\* and single spaces (an underscore of the input has become a space), and
\* neither starts nor ends with a space.
C23_LettersDigitsSpaces ==
    npc = "returned" =>
        /\ \A n \in 1..Len(norm_once) :
              norm_once[n] \in Range(LowerCase) \cup Range(Digits) \cup {" "}
        /\ \A n \in 1..(Len(norm_once) - 1) : ~(norm_once[n] = " " /\ norm_once[n + 1] = " ")
        /\ norm_once # << >> => (norm_once[1] # " " /\ norm_once[Len(norm_once)] # " ")

-----------------------------------------------------------------------------
(* The author sets of are_duplicates, checked under SpecClassify *)

\* the author set that are_duplicates builds for a record (auth1_set, auth2_set)
ComparedAuthorSet(p) == Range(Split(normalize_authors(Authors(p))))

\* C24: when are_duplicates compares author sets (the authors decide and both
\* normalized author strings are non-empty), neither set contains the empty
\* key: a name that normalizes to the empty string has been discarded.
C24_NoEmptyAuthorKey ==
    (/\ AuthorsDecide
     /\ normalize_authors(Authors(paper1)) # << >>
     /\ normalize_authors(Authors(paper2)) # << >>)
        => /\ << >> \notin ComparedAuthorSet(paper1)
           /\ << >> \notin ComparedAuthorSet(paper2)

-----------------------------------------------------------------------------
(* deduplicate_papers applied to its own result, checked under Spec *)

\* C25: at the return, deduplicating unique_papers again gives unique_papers,
\* in the same order, and a duplicate count of 0.
C25_Idempotent ==
    pc = "done" => Fold(unique_papers, EightyFiveHundredths)
                       = [unique |-> unique_papers, count |-> 0]

\* a finished run that removed a duplicate and kept at least two records,
\* and whose result deduplicates to itself
C25_Witness ==
    /\ pc = "done"
    /\ duplicate_count >= 1
    /\ Len(unique_papers) >= 2
    /\ Fold(all_papers, EightyFiveHundredths) = Outputs
    /\ Fold(unique_papers, EightyFiveHundredths).unique = unique_papers
    /\ Fold(unique_papers, EightyFiveHundredths).count = 0

-----------------------------------------------------------------------------
(* are_duplicates with its two records exchanged, checked under SpecClassify *)

\* C26: a call of are_duplicates returns what the call with the two records
\* exchanged returns, at the same threshold.
C26_Symmetric ==
    Returned => result = are_duplicates(paper2, paper1, similarity_threshold)

-----------------------------------------------------------------------------
(* Rows without a known title, checked under SpecResolve *)

\* C27: when the last pass returned a structural match (a row of the
\* higher-priority pool gave the document and the fallback was not
\* consulted), the row whose document was returned has a non-empty known
\* title.
C27_NoEmptyTitleMatch ==
    (/\ ref_pos >= 1
     /\ title_match
     /\ target_pdf # None
     /\ best_score = Unbound
     /\ LinkedRows(search_title, included_papers, pdf_map) # {})
        => LET first == Least(LinkedRows(search_title, included_papers, pdf_map))
           IN  (target_pdf = Document(included_papers[first], pdf_map))
                   => KnownTitle(included_papers[first]) # << >>

-----------------------------------------------------------------------------
(* The growth of unique_papers and duplicate_count, checked under Spec *)

\* s is t or the beginning of t
IsPrefixOf(s, t) == Len(s) <= Len(t) /\ SubSeq(t, 1, Len(s)) = s

\* C28: every step of deduplicate_papers leaves unique_papers as it is or
\* appends one record at its end, and leaves duplicate_count as it is or adds
\* one to it, never both in one step; and when a record has been processed
\* (i grows by one) the length of unique_papers plus duplicate_count is the
\* number of processed records, so each record appended exactly one record
\* or added exactly one to the counter, never both and never neither.
C28_GrowsByAppending ==
    [][/\ IsPrefixOf(unique_papers, unique_papers')
       /\ Len(unique_papers') <= Len(unique_papers) + 1
       /\ duplicate_count' \in {duplicate_count, duplicate_count + 1}
       /\ ~(unique_papers' # unique_papers /\ duplicate_count' # duplicate_count)
       /\ (i' = i + 1) =>
             /\ Len(unique_papers') + duplicate_count' = i'
             /\ Len(unique_papers) + duplicate_count \in {i, i'}]_vars

\* a finished run in which one record was appended after another and one
\* record was counted as a duplicate
C28_Witness ==
    /\ pc = "done"
    /\ i = Len(all_papers)
    /\ Len(unique_papers) >= 2
    /\ duplicate_count >= 1
    /\ Len(unique_papers) + duplicate_count = Len(all_papers)
    /\ unique_papers[1] = all_papers[1]

====
